---- MODULE Spec2Model ----
(***************************************************************************)
(* Model of src/components/LandingPage.tsx: the search state of the        *)
(* landing page, its synchronisation with the URL query parameters, the    *)
(* asynchronous search requests and the layout decisions of the render.    *)
(*                                                                         *)
(* Strings are sequences of tokens.  A token is either one of the          *)
(* characters the query-string codec treats specially (" ", "&", "=",      *)
(* "+", "%", and the hex digits used by the escapes of these) or a run of  *)
(* unreserved characters ("term", "foo", "2020") that the codec copies.    *)
(***************************************************************************)
EXTENDS Integers, Sequences, FiniteSets

VARIABLES isSearching, error, results, hasSearched,
          location, historyLen, effectPending,
          inflight, issued,
          lastOp, lastCall, lastSettled, urlWriter, resultsOwner, overlap

vars == <<isSearching, error, results, hasSearched,
          location, historyLen, effectPending,
          inflight, issued,
          lastOp, lastCall, lastSettled, urlWriter, resultsOwner, overlap>>

searchState == <<isSearching, error, results, hasSearched>>

(***************************************************************************)
(* Bounds                                                                  *)
(***************************************************************************)
MaxSearches == 4

(***************************************************************************)
(* Values: string | null | undefined                                       *)
(***************************************************************************)
Undefined == [kind |-> "undefined", v |-> <<>>]
Null      == [kind |-> "null", v |-> <<>>]
Str(s)    == [kind |-> "string", v |-> s]

\* JavaScript truthiness of a string | null | undefined value
Truthy(x) == x.kind = "string" /\ x.v # <<>>

\* x || undefined
OrUndefined(x) == IF Truthy(x) THEN x ELSE Undefined

\* x || ''
OrEmpty(x) == IF Truthy(x) THEN x.v ELSE <<>>

ParamKeys  == <<"term", "domain", "tag", "year", "region">>

(***************************************************************************)
(* URLSearchParams: application/x-www-form-urlencoded serialiser / parser  *)
(***************************************************************************)
\* (mutation) a serialiser that leaves "&" as it is
EncodeTokenRawAmp(c) ==
  CASE c = " " -> <<"+">>
    [] c = "=" -> <<"%", "3", "D">>
    [] c = "+" -> <<"%", "2", "B">>
    [] c = "%" -> <<"%", "2", "5">>
    [] OTHER   -> <<c>>

\* the serialiser's output for one token
EncodeToken(c) ==
  CASE c = " " -> <<"+">>
    [] c = "&" -> <<"%", "2", "6">>
    [] c = "=" -> <<"%", "3", "D">>
    [] c = "+" -> <<"%", "2", "B">>
    [] c = "%" -> <<"%", "2", "5">>
    [] OTHER   -> <<c>>

RECURSIVE Encode(_)
Encode(s) == IF s = <<>> THEN <<>> ELSE EncodeToken(Head(s)) \o Encode(Tail(s))

IsEscape(a, b) == <<a, b>> \in {<<"2","6">>, <<"3","D">>, <<"2","B">>, <<"2","5">>, <<"2","0">>}

Unescape(a, b) ==
  CASE <<a, b>> = <<"2","6">> -> "&"
    [] <<a, b>> = <<"3","D">> -> "="
    [] <<a, b>> = <<"2","B">> -> "+"
    [] <<a, b>> = <<"2","5">> -> "%"
    [] <<a, b>> = <<"2","0">> -> " "

\* (mutation) a decoding that turns "+" into a space and keeps every escape
RECURSIVE DecodePlusOnly(_)
DecodePlusOnly(s) ==
  IF s = <<>> THEN <<>>
  ELSE IF Head(s) = "+" THEN <<" ">> \o DecodePlusOnly(Tail(s))
  ELSE <<Head(s)>> \o DecodePlusOnly(Tail(s))

\* the parser's decoding of a name or a value: "+" is a space, %XX is a byte,
\* a "%" that starts no escape is kept
RECURSIVE Decode(_)
Decode(s) ==
  IF s = <<>> THEN <<>>
  ELSE IF Head(s) = "+" THEN <<" ">> \o Decode(Tail(s))
  ELSE IF Head(s) = "%" /\ Len(s) >= 3 /\ IsEscape(s[2], s[3])
       THEN <<Unescape(s[2], s[3])>> \o Decode(SubSeq(s, 4, Len(s)))
  ELSE <<Head(s)>> \o Decode(Tail(s))

\* the segments of s between occurrences of sep
RECURSIVE SplitOn(_, _, _)
SplitOn(s, sep, cur) ==
  IF s = <<>> THEN <<cur>>
  ELSE IF Head(s) = sep THEN <<cur>> \o SplitOn(Tail(s), sep, <<>>)
  ELSE SplitOn(Tail(s), sep, Append(cur, Head(s)))

\* position of the first "=" of a segment, 0 if there is none
FirstEq(seg) ==
  IF \E i \in 1..Len(seg) : seg[i] = "="
  THEN CHOOSE i \in 1..Len(seg) : seg[i] = "=" /\ \A j \in 1..(i-1) : seg[j] # "="
  ELSE 0

ParsePairAt(seg, i) ==
  IF i = 0 THEN [name |-> Decode(seg), value |-> <<>>]
  ELSE [name |-> Decode(SubSeq(seg, 1, i-1)), value |-> Decode(SubSeq(seg, i+1, Len(seg)))]

\* (the segment is bound once, as a value)
ParsePair(seg) == CHOOSE r \in { ParsePairAt(g, FirstEq(g)) : g \in {seg} } : TRUE

\* new URLSearchParams(queryString): the list of name/value pairs
ParseQuery(q) ==
  CHOOSE r \in { [i \in 1..Len(segs) |-> ParsePair(segs[i])] :
                   segs \in { SelectSeq(SplitOn(q, "&", <<>>), LAMBDA g : g # <<>>) } } : TRUE

\* URLSearchParams.toString()
RECURSIVE ToString(_)
ToString(pairs) ==
  IF pairs = <<>> THEN <<>>
  ELSE Encode(Head(pairs).name) \o <<"=">> \o Encode(Head(pairs).value)
       \o (IF Len(pairs) > 1 THEN <<"&">> \o ToString(Tail(pairs)) ELSE <<>>)

\* URLSearchParams.get(name): the first value of that name, or null
GetIn(pairs, name) ==
  IF \E i \in 1..Len(pairs) : pairs[i].name = <<name>>
  THEN LET i == CHOOSE i \in 1..Len(pairs) :
                  pairs[i].name = <<name>> /\ \A j \in 1..(i-1) : pairs[j].name # <<name>>
       IN  Str(pairs[i].value)
  ELSE Null

Get(pairs, name) == CHOOSE r \in { GetIn(p, name) : p \in {pairs} } : TRUE

\* useSearchParams(): the parameters of the current location "/" or "/?query"
QueryOf(loc) == IF Len(loc) >= 2 THEN SubSeq(loc, 3, Len(loc)) ELSE <<>>
searchParams == ParseQuery(QueryOf(location))

(***************************************************************************)
(* Inputs                                                                  *)
(***************************************************************************)
Criteria(q, d, t, y, r) == [query |-> q, domain |-> d, tag |-> t, year |-> y, region |-> r]

NoCriteria == Criteria(<<>>, Undefined, Undefined, Undefined, Undefined)

\* what the form submits in the specification of the page
FormCriteria ==
  { NoCriteria,
    Criteria(<<"foo">>, Undefined, Undefined, Undefined, Undefined),
    Criteria(<<"a", " ", "b", "&", "c">>, Undefined, Undefined, Str(<<"2020">>), Undefined),
    Criteria(<<>>, Str(<<"d">>), Str(<<>>), Null, Undefined) }

\* every combination of the criteria fields, for the specification of the
\* query-string
QueryValues  == { <<>>, <<"foo">>, <<"a", " ", "=", "%", "2", "6", "+", "&">> }
FilterValues == { Undefined, Null, Str(<<>>), Str(<<"x", "&", "y">>) }
AllCriteria  ==
  { Criteria(q, d, t, y, r) : q \in QueryValues, d \in FilterValues, t \in FilterValues,
                              y \in FilterValues, r \in FilterValues }

Root == <<"/">>

\* locations the page is opened at, or navigated to from outside
ExternalLocations ==
  { Root,
    <<"/", "?", "term", "=", "foo", "&", "year", "=", "2020">>,
    <<"/", "?", "term", "=">>,
    <<"/", "?", "domain", "=", "&", "term", "=", "a", "%", "2", "0", "b">>,
    <<"/", "?", "region", "=", "r", "&", "utm", "=", "x">> }

\* what the endpoint answers
Responses == { <<>>, <<"r1">>, <<"r2", "r1">> }
Outcomes ==
  { [kind |-> "ok", data |-> d] : d \in Responses }
  \cup { [kind |-> k, data |-> <<>>] : k \in {"non2xx", "network", "parse"} }

Failed(o) == o.kind \in {"non2xx", "network", "parse"}

FailureMessage == "Search failed. Please try again."
NoError == "null"

(***************************************************************************)
(* The component                                                           *)
(***************************************************************************)
\* (mutation) a check that forgets the region parameter
hasSearchParamsNoRegion ==
  \/ Truthy(Get(searchParams, "term"))
  \/ Truthy(Get(searchParams, "domain"))
  \/ Truthy(Get(searchParams, "tag"))
  \/ Truthy(Get(searchParams, "year"))

hasSearchParams ==
  \/ Truthy(Get(searchParams, "term"))
  \/ Truthy(Get(searchParams, "domain"))
  \/ Truthy(Get(searchParams, "tag"))
  \/ Truthy(Get(searchParams, "year"))
  \/ Truthy(Get(searchParams, "region"))

\* (mutation) criteria that never carry the year of the URL
InitialCriteriaNoYear ==
  Criteria(OrEmpty(Get(searchParams, "term")),
           OrUndefined(Get(searchParams, "domain")),
           OrUndefined(Get(searchParams, "tag")),
           Undefined,
           OrUndefined(Get(searchParams, "region")))

\* the criteria performInitialSearch hands to handleSearch
InitialCriteria ==
  Criteria(OrEmpty(Get(searchParams, "term")),
           OrUndefined(Get(searchParams, "domain")),
           OrUndefined(Get(searchParams, "tag")),
           OrUndefined(Get(searchParams, "year")),
           OrUndefined(Get(searchParams, "region")))

\* (mutation) a spread that tests x against null and undefined only
SpreadIfString(key, x) ==
  IF x.kind = "string" THEN <<[name |-> <<key>>, value |-> x.v]>> ELSE <<>>

\* ...(x && { key: x }): the pair when x is truthy, nothing otherwise
Spread(key, x) == IF Truthy(x) THEN <<[name |-> <<key>>, value |-> x.v]>> ELSE <<>>

\* new URLSearchParams({ term: query, ...(domain && { domain }), ... })
BuildParams(c) ==
  <<[name |-> <<"term">>, value |-> c.query]>>
  \o Spread("domain", c.domain) \o Spread("tag", c.tag)
  \o Spread("year", c.year) \o Spread("region", c.region)

QueryString(c) == ToString(BuildParams(c))

\* the argument of router.push
PushTarget(c) == <<"/", "?">> \o QueryString(c)

\* (mutation) a reset that does not record that a search was attempted
ResetStateNoHasSearched ==
  /\ error' = NoError
  /\ isSearching' = TRUE
  /\ results' = <<>>
  /\ UNCHANGED hasSearched

\* the four state writes that open handleSearch
ResetState ==
  /\ error' = NoError
  /\ isSearching' = TRUE
  /\ results' = <<>>
  /\ hasSearched' = TRUE

\* handleSearch up to its await: the state resets, the URL write and the
\* request; by is "user" (the form) or "url" (the URL watcher)
handleSearch(c, by) ==
  /\ issued < MaxSearches
  /\ ResetState
  /\ location' = PushTarget(c)
  /\ historyLen' = historyLen + 1
  /\ urlWriter' = "search"
  /\ issued' = issued + 1
  /\ inflight' = inflight \cup {issued + 1}
  /\ overlap' = (inflight # {})
  /\ lastCall' = [by |-> by, criteria |-> c, query |-> QueryString(c)]
  /\ UNCHANGED <<lastSettled, resultsOwner>>

\* the effect of the mount runs before any event is handled
Mounted == lastOp # "mount"

\* the form's onSearch
Submit(c) ==
  /\ Mounted
  /\ issued + 2 <= MaxSearches
  /\ handleSearch(c, "user")
  /\ effectPending' = (effectPending \/ location' # location)
  /\ lastOp' = "submit"

performInitialSearch ==
  LET query  == Get(searchParams, "term")
      domain == Get(searchParams, "domain")
      tag    == Get(searchParams, "tag")
      year   == Get(searchParams, "year")
      region == Get(searchParams, "region")
  IN  IF Truthy(query) \/ Truthy(domain) \/ Truthy(tag) \/ Truthy(year) \/ Truthy(region)
      THEN \E c \in {InitialCriteria} :
             handleSearch(c, "url") /\ effectPending' = (location' # location)
      ELSE UNCHANGED <<searchState, location, historyLen, urlWriter, issued, inflight,
                       overlap, lastCall, lastSettled, resultsOwner>>
           /\ effectPending' = FALSE

\* useEffect(..., [searchParams]): runs after mount and after every change
\* of the URL's query
useEffect ==
  /\ effectPending
  /\ lastOp' = "effect"
  /\ IF hasSearchParams
     THEN performInitialSearch
     ELSE UNCHANGED <<searchState, location, historyLen, urlWriter, issued, inflight,
                      overlap, lastCall, lastSettled, resultsOwner>>
          /\ effectPending' = FALSE

\* (mutation) setIsSearching(false) at the end of the try block
FinallyOnSuccessOnly(o) == isSearching' = (IF o.kind = "ok" THEN FALSE ELSE isSearching)

\* (mutation) setIsSearching(false) in the catch block
FinallyOnFailureOnly(o) == isSearching' = (IF Failed(o) THEN FALSE ELSE isSearching)

\* the finally block
Finally(o) == isSearching' = FALSE

\* handleSearch from its await on: request id settles with outcome o; the
\* three failures (response not ok, fetch rejected, json() rejected) all end
\* in the catch block
Settle(id, o) ==
  /\ id \in inflight
  /\ inflight' = inflight \ {id}
  /\ IF o.kind = "ok"
     THEN results' = o.data /\ resultsOwner' = id /\ UNCHANGED error
     ELSE error' = FailureMessage /\ UNCHANGED <<results, resultsOwner>>
  /\ Finally(o)
  /\ lastSettled' = [id |-> id, kind |-> o.kind, data |-> o.data]
  /\ lastOp' = "settle"
  /\ UNCHANGED <<hasSearched, location, historyLen, effectPending, issued, urlWriter,
                 lastCall, overlap>>

\* the location changes from outside the component (link, address bar, back)
Navigate(loc) ==
  /\ Mounted
  /\ issued + 2 <= MaxSearches
  /\ loc # location
  /\ location' = loc
  /\ urlWriter' = "external"
  /\ effectPending' = TRUE
  /\ lastOp' = "navigate"
  /\ UNCHANGED <<searchState, historyLen, inflight, issued, lastCall, lastSettled,
                 resultsOwner, overlap>>

(***************************************************************************)
(* The render                                                              *)
(***************************************************************************)
showCenteredSearch == ~hasSearched /\ ~hasSearchParams

Layout == IF showCenteredSearch THEN "centered" ELSE "compact"

ResultsPanelShown == hasSearchParams

\* (mutation) the introduction on the centered layout only
IntroShownCenteredOnly == showCenteredSearch

IntroShown == showCenteredSearch \/ (Len(results) = 0 /\ ~isSearching)

(***************************************************************************)
(* Specification of the page                                               *)
(***************************************************************************)
InitState(loc) ==
  /\ isSearching = FALSE
  /\ error = NoError
  /\ results = <<>>
  /\ hasSearched = FALSE
  /\ location = loc
  /\ historyLen = 1
  /\ effectPending = TRUE
  /\ inflight = {}
  /\ issued = 0
  /\ lastOp = "mount"
  /\ lastCall = [by |-> "none", criteria |-> NoCriteria, query |-> <<>>]
  /\ lastSettled = [id |-> 0, kind |-> "none", data |-> <<>>]
  /\ urlWriter = "external"
  /\ resultsOwner = 0
  /\ overlap = FALSE

Init == \E loc \in ExternalLocations : InitState(loc)

UserSubmits == \E c \in FormCriteria : Submit(c)
RequestSettles == \E id \in inflight : \E o \in Outcomes : Settle(id, o)
LocationChanges == \E loc \in ExternalLocations : Navigate(loc)

Next == UserSubmits \/ useEffect \/ RequestSettles \/ LocationChanges

Spec == Init /\ [][Next]_vars

(***************************************************************************)
(* Specification of the query-string: the page is opened at "/", the form  *)
(* submits one of every combination of criteria, and the URL watcher and   *)
(* the request run from there                                              *)
(***************************************************************************)
InitQS == InitState(Root)

FirstSubmit == issued = 0 /\ ~effectPending /\ \E c \in AllCriteria : Submit(c)

NextQS == FirstSubmit \/ useEffect \/ RequestSettles

SpecQS == InitQS /\ [][NextQS]_vars

(***************************************************************************)
(* Specification of the page with its scheduling: React runs a pending     *)
(* effect, and every request that was issued settles                       *)
(***************************************************************************)
SpecLive == Spec /\ WF_vars(useEffect) /\ WF_vars(RequestSettles)

TypeOK ==
  /\ isSearching \in BOOLEAN
  /\ error \in {NoError, FailureMessage}
  /\ results \in Responses
  /\ hasSearched \in BOOLEAN
  /\ effectPending \in BOOLEAN
  /\ inflight \subseteq 1..issued
  /\ issued \in 0..MaxSearches
  /\ effectPending => issued < MaxSearches

(***************************************************************************)
(* Properties                                                              *)
(***************************************************************************)
Quiescent == inflight = {}

\* the value of URL parameter k is present and non-empty
NonEmptyInUrl(k) == Get(searchParams, k).kind = "string" /\ Get(searchParams, k).v # <<>>

ParamNames == { <<ParamKeys[i]>> : i \in 1..Len(ParamKeys) }

\* the criteria field that URL parameter k carries
FieldOf(c, k) == IF k = "term" THEN Str(c.query) ELSE c[k]

\* C1: when a search was started while another was pending, once all of
\* them have settled and no request is in flight, isSearching is false,
\* whatever the outcomes and whichever settled last.
C1_NotStuckAfterOverlap == (overlap /\ Quiescent) => ~isSearching

C1_Witness ==
  /\ overlap /\ Quiescent /\ ~isSearching
  /\ lastSettled.id < issued
  /\ Failed(lastSettled)

\* C2: right after a request settles with a failure (non-2xx, network or
\* parse), error is the generic message, results is empty and isSearching
\* is false.
C2_FailureEndState ==
  (lastOp = "settle" /\ Failed(lastSettled))
    => (error = FailureMessage /\ results = <<>> /\ ~isSearching)

\* C3 (as claimed): the query-string search() builds holds a pair only for
\* criteria fields with a non-empty value, and no pair with an empty value,
\* the term included.
C3_NoEmptyPairAnyField ==
  lastCall.by # "none" =>
    LET pairs == ParseQuery(lastCall.query) IN
    \A i \in 1..Len(pairs) :
      /\ pairs[i].name \in ParamNames
      /\ pairs[i].value # <<>>
      /\ FieldOf(lastCall.criteria, pairs[i].name[1]) = Str(pairs[i].value)

\* C3 (amended): the query-string search() builds holds a pair for a filter
\* (domain, tag, year, region) only when that filter's value is non-empty,
\* and never a filter pair with an empty value; the term pair is always
\* there and carries the search text, empty or not.
C3_NoEmptyFilterPair ==
  lastCall.by # "none" =>
    LET pairs == ParseQuery(lastCall.query) IN
    /\ \A i \in 1..Len(pairs) :
         /\ pairs[i].name \in ParamNames
         /\ FieldOf(lastCall.criteria, pairs[i].name[1]) = Str(pairs[i].value)
         /\ pairs[i].name # <<"term">> => pairs[i].value # <<>>
    /\ Get(pairs, "term") = Str(lastCall.criteria.query)

C3_Witness ==
  /\ lastCall.by = "user"
  /\ lastCall.criteria.query = <<>>
  /\ lastCall.criteria.domain = Str(<<>>)
  /\ lastCall.criteria.tag = Null
  /\ lastCall.criteria.year = Undefined
  /\ Truthy(lastCall.criteria.region)

AnyNonEmptyInUrl == \E i \in 1..Len(ParamKeys) : NonEmptyInUrl(ParamKeys[i])

\* the URL's values, a present filter carrying its value even when empty
UrlValuesAsPresent ==
  LET f(k) == IF Get(searchParams, k).kind = "string" THEN Get(searchParams, k) ELSE Undefined
  IN  Criteria(OrEmpty(Get(searchParams, "term")), f("domain"), f("tag"), f("year"), f("region"))

\* the URL's values, a filter that is absent or empty being unset
UrlValuesNonEmpty ==
  LET f(k) == IF NonEmptyInUrl(k) THEN Get(searchParams, k) ELSE Undefined
  IN  Criteria(OrEmpty(Get(searchParams, "term")), f("domain"), f("tag"), f("year"), f("region"))

WatcherStarts(c) ==
  /\ issued' = issued + 1
  /\ inflight' = inflight \cup {issued + 1}
  /\ lastCall'.by = "url"
  /\ lastCall'.criteria = c

WatcherIdle == UNCHANGED <<searchState, issued, inflight, lastCall>>

\* C4 (as claimed): when the URL watcher runs (on mount, on a change of the
\* URL parameters), it starts a search with text = the term value, every
\* present filter = its URL value and every absent filter unset if some
\* parameter is non-empty, and otherwise starts none and leaves the search
\* state as it is.
C4_WatcherUsesPresentValues ==
  [][ lastOp' = "effect" =>
        IF AnyNonEmptyInUrl THEN WatcherStarts(UrlValuesAsPresent) ELSE WatcherIdle ]_vars

\* C4 (amended): as C4, with every filter that has a non-empty value = its
\* URL value, every filter that is absent or has an empty value unset, and
\* the text = the term value, or the empty string when term is absent.
C4_WatcherUsesNonEmptyValues ==
  [][ lastOp' = "effect" =>
        IF AnyNonEmptyInUrl THEN WatcherStarts(UrlValuesNonEmpty) ELSE WatcherIdle ]_vars

C4_Witness ==
  /\ lastOp = "effect"
  /\ lastCall.by = "url"
  /\ lastCall.criteria = Criteria(<<"foo">>, Undefined, Undefined, Str(<<"2020">>), Undefined)
  /\ issued = 1

\* C5: the centered layout is shown exactly when no search has been
\* attempted and no URL parameter has a non-empty value, the compact layout
\* otherwise; with no URL parameters and no search, the layout is centered
\* and the post list is shown.
C5_CenteredLayout ==
  /\ Layout = "centered" <=> (issued = 0 /\ ~AnyNonEmptyInUrl)
  /\ Layout = "compact" <=> (issued > 0 \/ AnyNonEmptyInUrl)
  /\ (location = Root /\ issued = 0) => (Layout = "centered" /\ IntroShown)

C5_Witness ==
  /\ location = <<"/", "?", "term", "=">>
  /\ issued = 0
  /\ ~effectPending
  /\ Layout = "centered"

\* C6: the introduction and the post list are shown whenever the centered
\* layout is active or the last search completed with zero results and
\* none is in flight; whenever they are hidden, results is non-empty or a
\* request is in flight.
C6_IntroVisibility ==
  /\ showCenteredSearch => IntroShown
  /\ (lastSettled.kind = "ok" /\ lastSettled.data = <<>> /\ Quiescent) => IntroShown
  /\ ~IntroShown => (results # <<>> \/ ~Quiescent)

C6_Witness ==
  /\ ~showCenteredSearch
  /\ lastOp = "settle"
  /\ lastSettled.kind = "ok" /\ lastSettled.data = <<>>
  /\ Quiescent
  /\ overlap
  /\ IntroShown

\* C7: hasSearched is false until the first search() invocation, true from
\* it on, and no later step sets it back to false.
C7_HasSearchedMonotone ==
  /\ [](hasSearched <=> issued > 0)
  /\ [][hasSearched => hasSearched']_vars

C7_Witness ==
  /\ hasSearched
  /\ lastOp = "navigate"
  /\ error = FailureMessage
  /\ issued >= 2

\* C8: isSearching is true only while some request is in flight.
C8_SearchingOnlyInFlight == isSearching => inflight # {}

C8_Witness == isSearching /\ Cardinality(inflight) = 2

\* C9: after overlapping searches have all settled, error and results are
\* what the response that settled last would have produced alone: its list
\* and no error, or the generic error and no results.
C9_LastResponseWins ==
  (overlap /\ Quiescent) =>
    /\ lastSettled.kind = "ok" => (results = lastSettled.data /\ error = NoError)
    /\ Failed(lastSettled) => (results = <<>> /\ error = FailureMessage)

\* C10: the criteria the URL watcher reads back from a URL that search()
\* wrote build that same query-string, and the search the watcher runs on
\* them leaves the URL as it is.
C10_UrlRoundTrip ==
  /\ [](urlWriter = "search" => QueryString(InitialCriteria) = QueryOf(location))
  /\ [][(urlWriter = "search" /\ lastOp' = "effect") => location' = location]_vars

C10_Witness ==
  /\ lastOp = "effect"
  /\ lastCall.by = "url"
  /\ lastCall.criteria.query = <<"a", " ", "=", "%", "2", "6", "+", "&">>
  /\ lastCall.criteria.domain = Str(<<"x", "&", "y">>)
  /\ lastCall.criteria.tag = Undefined

\* C11: with no request in flight, the results held in state are those
\* returned for the most recently issued search; a response of a superseded
\* search does not remain as the visible result.
C11_ResultsOfLatestSearch ==
  (Quiescent /\ results # <<>>) => resultsOwner = issued

\* C12: every search() invocation sets the location to "/?" followed by
\* the query-string it sends to the endpoint, and leaves the length of the
\* navigation history as it is.
C12_UrlWriteKeepsHistory ==
  [][ issued' = issued + 1 =>
        /\ location' = <<"/", "?">> \o lastCall'.query
        /\ historyLen' = historyLen ]_vars

\* a step of the user or of the world outside: a submit or a change of
\* the location
ExternalStep == lastOp' \in {"submit", "navigate"}

\* nothing is in flight, nothing is shown as loading, no effect is pending
Settled == Quiescent /\ ~isSearching /\ ~effectPending

\* C13: with finitely many submissions (each behaviour has at most
\* MaxSearches searches) and every request settling, the page reaches again
\* and again a state with no request in flight, isSearching false and no
\* effect pending, and leaves it only by a submit or an outside URL change:
\* once these have ended it stays there.  The watcher's searches after a
\* URL write come to an end, and the settling of a request (a failure
\* included) never issues a search.
C13_ReachesQuiescence ==
  /\ []<>Settled
  /\ [][Settled => ExternalStep]_vars
  /\ [][lastOp' = "settle" => issued' = issued]_vars

C13_Witness ==
  /\ Settled
  /\ lastOp = "settle"
  /\ Failed(lastSettled)
  /\ lastCall.by = "url"
  /\ urlWriter = "search"
  /\ issued >= 2

\* C14: a submit made with no request in flight is followed by no search of
\* the URL watcher: the URL that search() wrote starts no second search, and
\* the submit's request is the only one in flight.
C14_OneRequestPerSubmit ==
  [][ (lastOp = "submit" /\ ~overlap /\ urlWriter = "search" /\ lastOp' = "effect")
        => (issued' = issued /\ Cardinality(inflight') <= 1) ]_vars

\* C15: while a request is in flight, isSearching is true.
C15_InFlightShowsSearching == inflight # {} => isSearching

\* C16: whenever results is non-empty or error is set, the results panel is
\* rendered.
C16_ResultsAreDisplayed ==
  (results # <<>> \/ error # NoError) => ResultsPanelShown

====
